---- MODULE Spec2Model ----
(***************************************************************************)
(* The Bittrex REST client as a state machine.  Two revisions of the class *)
(* BittrexClient are modelled:                                             *)
(*   "v1" : src/src/bittrex-client.js  (query-string nonce HMAC, scheme A) *)
(*   "v3" : src/unnamed/part_001:453-1072 (body-hash HMAC, scheme B)       *)
(*   "v2" : src/unnamed/part_001:1074-1614 (the methods of v3 on the       *)
(*          request of v1, scheme A); of this revision, sendOrder          *)
(* A call of an async method runs synchronously up to its first await      *)
(* (validation, request construction, signing, hand-off to the transport); *)
(* its continuation runs when the transport settles the request.           *)
(***************************************************************************)
EXTENDS Integers, Sequences, FiniteSets, TLC

VARIABLES
  rev,        \* which revision of the class was instantiated
  apiKey,     \* this._apiKey
  apiSecret,  \* this._apiSecret
  seed,       \* the value Date.now() returned in the constructor
  nonce,      \* this._nonce
  ncalls,     \* number of method calls begun so far
  pending,    \* the requests handed to this._client.request and not yet settled,
              \* each with the call that awaits it
  log,        \* every request handed over so far, in order: its call and its nonce
  done        \* the call that completed in the last step, with its outcome

vars == <<rev, apiKey, apiSecret, seed, nonce, ncalls, pending, log, done>>

(***************************************************************************)
(* Bounds of the model.                                                    *)
(***************************************************************************)
MaxCalls == 2
\* the call sites that may each have one call in flight
Callers == {"c1", "c2"}

(***************************************************************************)
(* JavaScript values.  Objects are sequences of <<key, value>> pairs in    *)
(* insertion order, arrays are sequences of values.                        *)
(***************************************************************************)
Undefined == [t |-> "undefined", s |-> "", o |-> <<>>]
Null == [t |-> "null", s |-> "", o |-> <<>>]
Str(s) == [t |-> "string", s |-> s, o |-> <<>>]
Num(s) == [t |-> "number", s |-> s, o |-> <<>>]
Obj(o) == [t |-> "object", s |-> "", o |-> o]
Arr(o) == [t |-> "array", s |-> "", o |-> o]
DateOf(s) == [t |-> "date", s |-> s, o |-> <<>>]
Bool(b) == [t |-> "boolean", s |-> IF b THEN "true" ELSE "false", o |-> <<>>]

\* !v
Falsy(v) ==
  \/ v.t \in {"undefined", "null"}
  \/ v.t = "string" /\ v.s = ""
  \/ v.t = "number" /\ v.s = "0"
  \/ v.t = "boolean" /\ v.s = "false"

\* !!v
Truthy(v) == ~Falsy(v)

\* `${v}`
ToStr(v) ==
  CASE v.t \in {"string", "number", "boolean"} -> v.s
    [] v.t = "undefined" -> "undefined"
    [] v.t = "null" -> "null"
    [] v.t = "object" -> "[object Object]"
    [] OTHER -> ""

Keys(o) == {o[i][1] : i \in 1..Len(o)}

\* o[k]
Get(o, k) ==
  IF k \in Keys(o)
    THEN LET i == CHOOSE j \in 1..Len(o) : o[j][1] = k IN o[i][2]
    ELSE Undefined

\* o[k] = v
Put(o, k, v) ==
  IF k \in Keys(o)
    THEN [i \in 1..Len(o) |-> IF o[i][1] = k THEN <<k, v>> ELSE o[i]]
    ELSE Append(o, <<k, v>>)

(***************************************************************************)
(* Construction.                                                           *)
(***************************************************************************)
baseURL == "https://api.bittrex.com/v3"

Revisions == {"v1", "v2", "v3"}
Credentials == {<<Null, Null>>, <<Str("KEY"), Str("SECRET")>>}
Clock == {1000}

NoAnswer == [ok |-> FALSE, error |-> "", data |-> Undefined]

NoCall ==
  [id |-> 0, op |-> "", args |-> <<>>, status |-> "none",
   kind |-> "", message |-> "", value |-> Undefined, answer |-> NoAnswer]

constructor(r, cred, now) ==
  /\ rev = r
  /\ apiKey = cred[1]
  /\ apiSecret = cred[2]
  /\ seed = now
  /\ nonce = now

\* revision v3 is constructed with credentials: its constructor has no defaults for them
Init ==
  /\ \E r \in Revisions, cred \in Credentials, now \in Clock :
       /\ r = "v3" => Truthy(cred[1])
       /\ constructor(r, cred, now)
  /\ ncalls = 0
  /\ pending = {}
  /\ log = <<>>
  /\ done = NoCall

(***************************************************************************)
(* Private helpers of revision v1 (src/src/bittrex-client.js).             *)
(***************************************************************************)
sanitizeParams_keepall(params) == params

sanitizeParams(params) ==
  SelectSeq(params, LAMBDA p : p[2] # Undefined)

stringify_head(params) ==
  IF params = <<>> THEN "" ELSE Head(params)[1] \o "=" \o Head(params)[2].s

\* querystring.stringify: strings, numbers and booleans are written out, any
\* other value as the empty string
RECURSIVE stringify(_)
stringify(params) ==
  IF params = <<>> THEN ""
  ELSE LET p == Head(params)
           v == IF p[2].t \in {"string", "number", "boolean"} THEN p[2].s ELSE ""
       IN p[1] \o "=" \o v \o (IF Len(params) > 1 THEN "&" ELSE "") \o stringify(Tail(params))

HmacSHA512_salted(msg, key) == "hmac-sha512{" \o key \o "}(" \o msg \o ")#" \o ToString(ncalls)

\* crypto.createHmac('sha512', key).update(msg).digest('hex'), symbolically
HmacSHA512(msg, key) == "hmac-sha512{" \o key \o "}(" \o msg \o ")"

requestSignature_leak(path, params) == ToStr(apiSecret)

requestSignature(path, params) ==
  LET query == stringify(params)
      url == baseURL \o path \o "?" \o query
  IN HmacSHA512(url, ToStr(apiSecret))

preIncrement_stuck(n) == n

\* ++this._nonce
preIncrement(n) == n + 1

request_unguarded(method, url, options) ==
  LET raw == IF Get(options, "params") = Undefined THEN <<>> ELSE Get(options, "params").o
      n == preIncrement(nonce)
      params == Put(Put(sanitizeParams(raw), "nonce", Num(ToString(n))), "apikey", apiKey)
  IN [method |-> method, url |-> url, headers |-> <<<<"apisign", Str("")>>>>, params |-> params,
      content |-> Undefined, raw |-> raw, auth |-> TRUE, nonce |-> n]

request_shared(method, url, options) ==
  LET raw == IF Get(options, "params") = Undefined THEN <<>> ELSE Get(options, "params").o
      shared == IF pending = {} THEN <<>> ELSE (CHOOSE q \in pending : TRUE).params
      auth == Truthy(apiKey)
      n == preIncrement(nonce)
      params0 == sanitizeParams(shared \o raw)
      params == IF auth THEN Put(Put(params0, "nonce", Num(ToString(n))), "apikey", apiKey)
                ELSE params0
      headers == IF auth THEN <<<<"apisign", Str(requestSignature(url, params))>>>> ELSE <<>>
  IN [method |-> method, url |-> url, headers |-> headers, params |-> params,
      content |-> Undefined, raw |-> raw, auth |-> auth, nonce |-> IF auth THEN n ELSE nonce]

request_nostore(method, url, options) ==
  LET raw == IF Get(options, "params") = Undefined THEN <<>> ELSE Get(options, "params").o
      auth == Truthy(apiKey)
      params == IF auth THEN Put(Put(sanitizeParams(raw), "nonce", Num(ToString(nonce + 1))),
                                 "apikey", apiKey)
                ELSE sanitizeParams(raw)
      headers == IF auth THEN <<<<"apisign", Str(requestSignature(url, params))>>>> ELSE <<>>
  IN [method |-> method, url |-> url, headers |-> headers, params |-> params,
      content |-> Undefined, raw |-> raw, auth |-> auth, nonce |-> nonce]

\* request(method, url, { headers = {}, params = {} } = {}) up to its await:
\* the axios config handed to the transport, and the nonce afterwards
request(method, url, options) ==
  LET headers0 == IF Get(options, "headers") = Undefined THEN <<>> ELSE Get(options, "headers").o
      raw == IF Get(options, "params") = Undefined THEN <<>> ELSE Get(options, "params").o
      params0 == sanitizeParams(raw)
      auth == Truthy(apiKey)
      n == preIncrement(nonce)
      params == IF auth THEN Put(Put(params0, "nonce", Num(ToString(n))), "apikey", apiKey)
                ELSE params0
      headers == IF auth THEN Put(headers0, "apisign", Str(requestSignature(url, params)))
                 ELSE headers0
  IN [method |-> method, url |-> url, headers |-> headers, params |-> params,
      content |-> Undefined, raw |-> raw, auth |-> auth, nonce |-> IF auth THEN n ELSE nonce]

\* one element of parseDates' outer loop: the inner loop over keys
RECURSIVE parseDatesOf(_, _)
parseDatesOf(result, keys) ==
  IF keys = <<>> THEN result
  ELSE LET key == Head(keys)
           r == IF Falsy(Get(result, key)) THEN result
                ELSE Put(result, key, DateOf(ToStr(Get(result, key)) \o "Z"))
       IN parseDatesOf(r, Tail(keys))

\* parseDates(results, keys): for..of over a value that is no array raises
\* TypeError: results is not iterable
parseDates(results, keys) ==
  IF results.t = "array"
    THEN [threw |-> FALSE,
          value |-> Arr([i \in 1..Len(results.o) |-> Obj(parseDatesOf(results.o[i].o, keys))])]
    ELSE [threw |-> TRUE, value |-> Undefined]

(***************************************************************************)
(* A call either throws before its first await or hands one request to the *)
(* transport and suspends.                                                 *)
(***************************************************************************)
Throw_consuming(op, args, message) ==
  /\ ncalls < MaxCalls
  /\ ncalls' = ncalls + 1
  /\ nonce' = nonce + 1
  /\ done' = [id |-> ncalls + 1, op |-> op, args |-> args, status |-> "threw",
              kind |-> "InvalidArgument", message |-> message, value |-> Undefined,
              answer |-> NoAnswer]
  /\ UNCHANGED <<rev, apiKey, apiSecret, seed, pending, log>>

Throw(op, args, message) ==
  /\ ncalls < MaxCalls
  /\ ncalls' = ncalls + 1
  /\ done' = [id |-> ncalls + 1, op |-> op, args |-> args, status |-> "threw",
              kind |-> "InvalidArgument", message |-> message, value |-> Undefined,
              answer |-> NoAnswer]
  /\ UNCHANGED <<rev, apiKey, apiSecret, seed, nonce, pending, log>>

Await_cached(op, args, cfg) ==
  /\ ncalls < MaxCalls
  /\ Cardinality(pending) < Cardinality(Callers)
  /\ ncalls' = ncalls + 1
  /\ IF done.status = "returned" /\ done.op = op /\ done.args = args
       THEN /\ done' = [done EXCEPT !.id = ncalls + 1]
            /\ UNCHANGED <<nonce, log, pending>>
       ELSE /\ nonce' = cfg.nonce
            /\ log' = Append(log, [call |-> ncalls + 1, nonce |-> Get(cfg.params, "nonce")])
            /\ pending' = pending \cup {[id |-> ncalls + 1, op |-> op, args |-> args,
                                         method |-> cfg.method, url |-> cfg.url,
                                         headers |-> cfg.headers, params |-> cfg.params,
                                         content |-> cfg.content, raw |-> cfg.raw]}
            /\ done' = NoCall
  /\ UNCHANGED <<rev, apiKey, apiSecret, seed>>

Await(op, args, cfg) ==
  /\ ncalls < MaxCalls
  /\ Cardinality(pending) < Cardinality(Callers)
  /\ ncalls' = ncalls + 1
  /\ nonce' = cfg.nonce
  /\ log' = Append(log, [call |-> ncalls + 1, nonce |-> Get(cfg.params, "nonce")])
  /\ pending' = pending \cup {[id |-> ncalls + 1, op |-> op, args |-> args,
                               method |-> cfg.method, url |-> cfg.url,
                               headers |-> cfg.headers, params |-> cfg.params,
                               content |-> cfg.content, raw |-> cfg.raw]}
  /\ done' = NoCall
  /\ UNCHANGED <<rev, apiKey, apiSecret, seed>>

(***************************************************************************)
(* Arguments the caller may pass.                                          *)
(***************************************************************************)
Markets == {Undefined, Str(""), Str("BTC-USD")}
OptionalMarkets == {Undefined, Str("BTC-USD")}
Currencies == {Undefined, Str(""), Str("BTC")}
OptionalCurrencies == {Undefined, Str("BTC")}
Depths == {Undefined, Num("1")}
Uuids == {Undefined, Str("id-1")}
\* the option bags { quantity, rate, timeInForce } of buyLimit and sellLimit
LimitOptions ==
  {<<Undefined, Undefined, Undefined>>,
   <<Num("50000"), Undefined, Undefined>>,
   <<Num("50000"), Num("0.0000001"), Undefined>>,
   <<Num("50000"), Num("0.0000001"), Str("IOC")>>,
   <<Num("50000"), Num("0.0000001"), Str("GTC")>>,
   <<Num("50000"), Num("0.0000001"), Str("FOK")>>}
\* the option bags { quantity, address, paymentid } of withdraw
WithdrawOptions ==
  {<<Undefined, Undefined, Undefined>>,
   <<Num("2"), Undefined, Undefined>>,
   <<Num("2"), Str("addr"), Undefined>>,
   <<Num("2"), Str("addr"), Str("")>>,
   <<Num("2"), Str("addr"), Str("pay")>>}

\* the calls with a symbol and an option bag: a present symbol with every bag,
\* a missing symbol with the one bag `whole`
Calls(Symbols, Options, whole) ==
  {<<s>> \o o : s \in {x \in Symbols : Truthy(x)}, o \in Options}
  \cup {<<s>> \o whole : s \in {x \in Symbols : Falsy(x)}}

\* parseFloat(v).toFixed(8)
toFixed8(v) ==
  CASE v.s = "50000" -> Str("50000.00000000")
    [] v.s = "0.0000001" -> Str("0.00000010")
    [] OTHER -> Str("NaN")

\* a default parameter value: used when the argument is undefined
Default(v, d) == IF v = Undefined THEN d ELSE v

(***************************************************************************)
(* The methods of revision v1 up to their await                            *)
(* (src/src/bittrex-client.js).                                            *)
(***************************************************************************)
markets ==
  /\ rev = "v1"
  /\ Await("markets", <<>>, request("get", "/markets", <<>>))

currencies ==
  /\ rev = "v1"
  /\ Await("currencies", <<>>, request("get", "/currencies", <<>>))

ticker ==
  \E market \in OptionalMarkets :
    LET symbol == IF Truthy(market) THEN "/" \o ToStr(market) ELSE ""
    IN /\ rev = "v1"
       /\ Await("ticker", <<market>>, request("get", "/markets" \o symbol \o "/tickers", <<>>))

marketSummaries ==
  /\ rev = "v1"
  /\ Await("marketSummaries", <<>>, request("get", "/markets/summaries", <<>>))

marketSummary ==
  \E market \in Markets :
    /\ rev = "v1"
    /\ IF Falsy(market) THEN Throw("marketSummary", <<market>>, "market is required")
       ELSE Await("marketSummary", <<market>>,
                  request("get", "/markets/" \o ToStr(market) \o "/summary", <<>>))

marketHistory ==
  \E market \in Markets :
    /\ rev = "v1"
    /\ IF Falsy(market) THEN Throw("marketHistory", <<market>>, "market is required")
       ELSE Await("marketHistory", <<market>>,
                  request("get", "/markets/" \o ToStr(market) \o "/trades", <<>>))

orderBook ==
  \E market \in Markets, depth \in Depths :
    /\ rev = "v1"
    /\ IF Falsy(market) THEN Throw("orderBook", <<market, depth>>, "market is required")
       ELSE IF Falsy(depth) THEN Throw("orderBook", <<market, depth>>, "options.depth is required")
       ELSE Await("orderBook", <<market, depth>>,
                  request("get", "/markets/" \o ToStr(market) \o "/orderbook",
                          <<<<"depth", depth>>>>))

limitOrderError_anytif(market, quantity, rate, timeInForce) ==
  IF Falsy(market) THEN "market is required"
  ELSE IF Falsy(quantity) THEN "options.quantity is required"
  ELSE IF Falsy(rate) THEN "options.rate is required"
  ELSE ""

\* the validation shared by the texts of buyLimit and sellLimit
limitOrderError(market, quantity, rate, timeInForce) ==
  IF Falsy(market) THEN "market is required"
  ELSE IF Falsy(quantity) THEN "options.quantity is required"
  ELSE IF Falsy(rate) THEN "options.rate is required"
  ELSE IF timeInForce # Str("IOC") /\ timeInForce # Str("GTC")
    THEN "options.timeInForce not IOC or GTC"
  ELSE ""

limitOrderParams(market, quantity, rate, timeInForce) ==
  <<<<"market", market>>, <<"quantity", toFixed8(quantity)>>,
    <<"rate", toFixed8(rate)>>, <<"timeInForce", timeInForce>>>>

buyLimit ==
  \E args \in Calls(Markets, LimitOptions, <<Num("50000"), Num("0.0000001"), Undefined>>) :
    LET market == args[1]
        quantity == args[2]
        rate == args[3]
        timeInForce == Default(args[4], Str("GTC"))
        err == limitOrderError(market, quantity, rate, timeInForce)
    IN /\ rev = "v1"
       /\ IF err # "" THEN Throw("buyLimit", args, err)
          ELSE Await("buyLimit", args,
                     request("get", "/market/buylimit",
                             <<<<"params", Obj(limitOrderParams(market, quantity, rate, timeInForce))>>>>))

sellLimit ==
  \E args \in Calls(Markets, LimitOptions, <<Num("50000"), Num("0.0000001"), Undefined>>) :
    LET market == args[1]
        quantity == args[2]
        rate == args[3]
        timeInForce == Default(args[4], Str("GTC"))
        err == limitOrderError(market, quantity, rate, timeInForce)
    IN /\ rev = "v1"
       /\ IF err # "" THEN Throw("sellLimit", args, err)
          ELSE Await("sellLimit", args,
                     request("get", "/market/selllimit",
                             <<<<"params", Obj(limitOrderParams(market, quantity, rate, timeInForce))>>>>))

cancelOrder ==
  \E uuid \in Uuids :
    /\ rev = "v1"
    /\ IF Falsy(uuid) THEN Throw("cancelOrder", <<uuid>>, "uuid is required")
       ELSE Await("cancelOrder", <<uuid>>,
                  request("get", "/market/cancel", <<<<"params", Obj(<<<<"uuid", uuid>>>>)>>>>))

openOrders ==
  \E market \in OptionalMarkets :
    /\ rev = "v1"
    /\ Await("openOrders", <<market>>,
             request("get", "/market/getopenorders", <<<<"params", Obj(<<<<"market", market>>>>)>>>>))

balances ==
  /\ rev = "v1"
  /\ Await("balances", <<>>, request("get", "/account/getbalances", <<>>))

balance ==
  \E currency \in Currencies :
    /\ rev = "v1"
    /\ IF Falsy(currency) THEN Throw("balance", <<currency>>, "currency is required")
       ELSE Await("balance", <<currency>>,
                  request("get", "/account/getbalance",
                          <<<<"params", Obj(<<<<"currency", currency>>>>)>>>>))

depositAddress ==
  \E currency \in Currencies :
    /\ rev = "v1"
    /\ IF Falsy(currency) THEN Throw("depositAddress", <<currency>>, "currency is required")
       ELSE Await("depositAddress", <<currency>>,
                  request("get", "/account/getdepositaddress",
                          <<<<"params", Obj(<<<<"currency", currency>>>>)>>>>))

withdraw ==
  \E args \in Calls(Currencies, WithdrawOptions, <<Num("2"), Str("addr"), Undefined>>) :
    LET currency == args[1]
        quantity == args[2]
        address == args[3]
        paymentid == args[4]
    IN /\ rev = "v1"
       /\ IF Falsy(currency) THEN Throw("withdraw", args, "currency is required")
          ELSE IF Falsy(quantity) THEN Throw("withdraw", args, "options.quantity is required")
          ELSE IF Falsy(address) THEN Throw("withdraw", args, "options.address is required")
          ELSE Await("withdraw", args,
                     request("get", "/account/withdraw",
                             <<<<"params", Obj(<<<<"currency", currency>>, <<"quantity", quantity>>,
                                                 <<"address", address>>, <<"paymentid", paymentid>>>>)>>>>))

orderHistory ==
  \E market \in OptionalMarkets :
    /\ rev = "v1"
    /\ Await("orderHistory", <<market>>,
             request("get", "/account/getorderhistory", <<<<"params", Obj(<<<<"market", market>>>>)>>>>))

order ==
  \E uuid \in Uuids :
    /\ rev = "v1"
    /\ IF Falsy(uuid) THEN Throw("order", <<uuid>>, "uuid is required")
       ELSE Await("order", <<uuid>>,
                  request("get", "/account/getorder", <<<<"params", Obj(<<<<"uuid", uuid>>>>)>>>>))

withdrawalHistory ==
  \E currency \in OptionalCurrencies :
    /\ rev = "v1"
    /\ Await("withdrawalHistory", <<currency>>,
             request("get", "/account/getwithdrawalhistory",
                     <<<<"params", Obj(<<<<"currency", currency>>>>)>>>>))

depositHistory ==
  \E currency \in OptionalCurrencies :
    /\ rev = "v1"
    /\ Await("depositHistory", <<currency>>,
             request("get", "/account/getdeposithistory",
                     <<<<"params", Obj(<<<<"currency", currency>>>>)>>>>))

(***************************************************************************)
(* Private helpers of revision v3 (src/unnamed/part_001:1002-1069).        *)
(***************************************************************************)
\* CryptoJS.SHA512(msg).toString(CryptoJS.enc.Hex), symbolically
SHA512(msg) == "sha512(" \o msg \o ")"

\* this._client.baseURL: the axios instance carries its configuration in
\* `defaults`; it has no property baseURL of its own
clientBaseURL == Undefined

\* new Date().getTime() at the time of a call
Times == {1001}

sanitizeRequestBody(requestBody) ==
  SelectSeq(requestBody, LAMBDA p : p[2] # Undefined)

\* request(method, url) of revision v3 up to its await
request_v3(method, url) ==
  [method |-> method, url |-> url, headers |-> <<>>, params |-> <<>>,
   content |-> Undefined, raw |-> <<>>, auth |-> FALSE, nonce |-> nonce]

\* requestAuth(method, url, requestBody = {}) up to its await
requestAuth(method, url, requestBody, now) ==
  LET timestamp == Num(ToString(now))
      content == Obj(sanitizeRequestBody(requestBody))
      contentHash == SHA512(ToStr(content))
      path == ToStr(clientBaseURL) \o url
      preSign == ToStr(timestamp) \o path \o method \o contentHash
      signedMessage == HmacSHA512(preSign, ToStr(apiSecret))
      headers == <<<<"apiKey", apiKey>>, <<"timestamp", timestamp>>,
                   <<"contentHash", Str(contentHash)>>, <<"signedMessage", Str(signedMessage)>>>>
  IN [method |-> method, url |-> url, headers |-> headers, params |-> <<>>,
      content |-> content, raw |-> requestBody, auth |-> FALSE, nonce |-> nonce]

\* the body the transport sends for a request configuration: axios sends
\* config.data, and neither request nor requestAuth sets it (requestAuth passes
\* its body under the key `content`)
bodySent(cfg) == Undefined

\* the argument { requestBody } the methods pass to requestAuth
Wrapped(requestBody) == <<<<"requestBody", Obj(requestBody)>>>>

(***************************************************************************)
(* Arguments of the methods of revision v3.                                *)
(***************************************************************************)
Intervals == {Undefined, Str("MINUTE_5")}
OrderIds == {Undefined, Str("id-1")}
Flags == {Undefined, Bool(FALSE)}
\* the values the documentation of sendOrder allows for direction, type and
\* timeInForce
Directions == {Str("BUY"), Str("SELL")}
OrderTypes == {Str("LIMIT"), Str("MARKET"), Str("CEILING_LIMIT"), Str("CEILING_MARKET")}
OrderTimesInForce ==
  {Str("GOOD_TIL_CANCELLED"), Str("IMMEDIATE_OR_CANCEL"), Str("FILL_OR_KILL"),
   Str("POST_ONLY_GOOD_TIL_CANCELLED"), Str("BUY_NOW"), Str("INSTANT")}

\* the fields of an order: a quantity, a ceiling and a limit, each given or not
OrderFields ==
  {<<q, c, l>> : q \in {Undefined, Num("5000")}, c \in {Undefined, Num("100")},
                 l \in {Undefined, Num("0.5")}}

\* the fields the documentation requires of an order of a type
FieldsOf(type) ==
  <<IF type \in {Str("LIMIT"), Str("MARKET")} THEN Num("5000") ELSE Undefined,
    IF type \in {Str("CEILING_LIMIT"), Str("CEILING_MARKET")} THEN Num("100") ELSE Undefined,
    IF type \in {Str("LIMIT"), Str("CEILING_LIMIT")} THEN Num("0.5") ELSE Undefined>>

\* the field combinations that differ from those of a type in one field at most
Near(type) ==
  {f \in OrderFields : Cardinality({i \in 1..3 : f[i] # FieldsOf(type)[i]}) <= 1}

\* the calls of sendOrder: marketSymbol, direction, type, quantity, ceiling,
\* limit, timeInForce.  Every type with the fields it requires and with one
\* field too many or too few; a LIMIT order with every direction and time in
\* force, documented or not, and without a market
OrderArgs ==
  UNION {{<<Str("BTC-USD"), Str("BUY"), type>> \o fields \o <<Undefined>> : fields \in Near(type)}
           : type \in OrderTypes}
  \cup {<<Str("BTC-USD"), direction, Str("LIMIT"), Num("5000"), Undefined, Num("0.5"), Undefined>> :
          direction \in Directions \cup {Str("HOLD")}}
  \cup {<<Str("BTC-USD"), Str("BUY"), Str("LIMIT"), Num("5000"), Undefined, Num("0.5"), tif>> :
          tif \in OrderTimesInForce \cup {Str("DAY")}}
  \cup {<<Str("BTC-USD"), Str("BUY"), Str("STOP"), Num("5000"), Undefined, Num("0.5"), Undefined>>,
        <<Undefined, Str("BUY"), Str("LIMIT"), Num("5000"), Undefined, Num("0.5"), Undefined>>}

\* quantity, cryptoAddress, { cryptoAdressTag, clientWithdrawalId } of requestWithdrawal
WithdrawalArgs ==
  {<<Undefined, Undefined, Undefined, Undefined>>,
   <<Num("2"), Undefined, Undefined, Undefined>>,
   <<Num("2"), Str("addr"), Undefined, Undefined>>,
   <<Num("2"), Str("addr"), Str("tag"), Undefined>>}

\* the int32 value of  (a !== b) | 'X' | ...  and of  (a === b) | 'X' | ... :
\* comparison binds tighter than |, and a string that is no number is 0 under |
neqOr(a, b) == IF a # b THEN 1 ELSE 0
eqOr(a, b) == IF a = b THEN 1 ELSE 0

\* the validation of sendOrder, in the order of its statements
sendOrderError(marketSymbol, direction, type, quantity, ceiling, limit, timeInForce) ==
  IF Falsy(marketSymbol) THEN "marketSymbol is required"
  ELSE IF neqOr(direction, Str("BUY")) # 0 THEN "direction must be either 'BUY' or 'SELL'"
  ELSE IF neqOr(type, Str("LIMIT")) # 0 THEN "type must be either: ['LIMIT'|'MARKET'|'CEILING_LIMIT'|'CEILING_MARKET']"
  ELSE IF eqOr(type, Str("LIMIT")) # 0 /\ Falsy(quantity) THEN "quantity must be included if type=['MARKET'|'LIMIT']"
  ELSE IF eqOr(type, Str("LIMIT")) # 0 /\ Truthy(ceiling) THEN "Do not specify ceiling if type=['MARKET'|'LIMIT']"
  ELSE IF eqOr(type, Str("CIELING_LIMIT")) # 0 /\ Falsy(ceiling) THEN "ceiling must be included if type=['CEILING_MARKET'|'CEILING_LIMIT']"
  ELSE IF eqOr(type, Str("CIELING_LIMIT")) # 0 /\ Truthy(quantity) THEN "Do not specify quantity if type=['CEILING_MARKET'|'CEILING_LIMIT']"
  ELSE IF eqOr(type, Str("LIMIT")) # 0 /\ Falsy(limit) THEN "limit must be included if type=['LIMIT'|'CEILING_LIMIT']"
  ELSE IF eqOr(type, Str("MARKET")) # 0 /\ Truthy(limit) THEN "Do not specify limit if type=['MARKET'|'CEILING_MARKET']"
  ELSE IF neqOr(timeInForce, Str("GOOD_TIL_CANCELLED")) # 0 THEN "timeInForce must be one of: ['GOOD_TIL_CANCELLED'|'IMMEDIATE_OR_CANCEL'|'FILL_OR_KILL'|'POST_ONLY_GOOD_TIL_CANCELLED'|'BUY_NOW'|'INSTANT']"
  ELSE ""

(***************************************************************************)
(* The methods of revision v3 up to their await                            *)
(* (src/unnamed/part_001:502-990).                                         *)
(***************************************************************************)
markets_v3 ==
  /\ rev = "v3"
  /\ Await("v3.markets", <<>>, request_v3("GET", "/markets"))

currencies_v3 ==
  /\ rev = "v3"
  /\ Await("v3.currencies", <<>>, request_v3("GET", "/currencies"))

ticker_v3 ==
  \E marketSymbol \in OptionalMarkets :
    /\ rev = "v3"
    /\ IF Truthy(marketSymbol)
         THEN Await("v3.ticker", <<marketSymbol>>,
                    request_v3("GET", "/markets/" \o ToStr(marketSymbol) \o "/ticker"))
         ELSE Await("v3.ticker", <<marketSymbol>>, request_v3("GET", "/markets/tickers"))

marketSummaries_v3 ==
  /\ rev = "v3"
  /\ Await("v3.marketSummaries", <<>>, request_v3("GET", "/markets/summaries"))

marketSummary_v3 ==
  \E marketSymbol \in Markets :
    /\ rev = "v3"
    /\ IF Falsy(marketSymbol)
         THEN Throw("v3.marketSummary", <<marketSymbol>>, "marketSymbol is required")
         ELSE Await("v3.marketSummary", <<marketSymbol>>,
                    request_v3("GET", "/markets/" \o ToStr(marketSymbol) \o "/summary"))

marketTrades ==
  \E marketSymbol \in Markets :
    /\ rev = "v3"
    /\ IF Falsy(marketSymbol)
         THEN Throw("v3.marketTrades", <<marketSymbol>>, "marketSymbol is required")
         ELSE Await("v3.marketTrades", <<marketSymbol>>,
                    request_v3("GET", "/markets/" \o ToStr(marketSymbol) \o "/trades"))

orderBook_v3 ==
  \E a \in Calls(Markets, {<<d>> : d \in Depths}, <<Undefined>>) :
    LET marketSymbol == a[1]
        d == a[2]
        depth == Default(d, Num("25"))
    IN /\ rev = "v3"
       /\ IF Falsy(marketSymbol)
            THEN Throw("v3.orderBook", <<marketSymbol, d>>, "marketSymbol is required")
            ELSE Await("v3.orderBook", <<marketSymbol, d>>,
                       request_v3("GET", "/markets/" \o ToStr(marketSymbol) \o "/orderbook"))

getCandlesRecent ==
  \E args \in Calls(Markets, {<<i>> : i \in Intervals}, <<Str("MINUTE_5")>>) :
    LET marketSymbol == args[1]
        candleInterval == args[2]
        candleType == Str("TRADE")
    IN /\ rev = "v3"
       /\ IF Falsy(marketSymbol) THEN Throw("v3.getCandlesRecent", args, "marketSymbol is required")
          ELSE IF Falsy(candleInterval)
            THEN Throw("v3.getCandlesRecent", args, "candleInterval is required")
          ELSE Await("v3.getCandlesRecent", args,
                     request_v3("GET", "/markets/" \o ToStr(marketSymbol) \o "/candles/"
                                       \o ToStr(candleType) \o "/" \o ToStr(candleInterval)
                                       \o "/recent"))

getCandlesHistorical ==
  \E marketSymbol \in Markets :
    LET candleInterval == Str("MINUTE_5")
        year == Num("2020")
        month == Num("1")
        day == Num("2")
        candleType == Str("TRADE")
    IN /\ rev = "v3"
       /\ Await("v3.getCandlesHistorical", <<marketSymbol, candleInterval, year, month, day>>,
                request_v3("GET", "/markets/" \o ToStr(marketSymbol) \o "/candles/"
                                  \o ToStr(candleType) \o "/" \o ToStr(candleInterval)
                                  \o "/historical/" \o ToStr(year) \o "/" \o ToStr(month)
                                  \o "/" \o ToStr(day)))

sendOrder ==
  \E a \in OrderArgs, now \in Times :
    LET marketSymbol == a[1]
        direction == a[2]
        type == a[3]
        quantity == a[4]
        ceiling == a[5]
        limit == a[6]
        timeInForce == Default(a[7], Str("GOOD_TIL_CANCELLED"))
        clientOrderId == Str("")
        useAwards == Bool(FALSE)
        err == sendOrderError(marketSymbol, direction, type, quantity, ceiling, limit, timeInForce)
        requestBody == <<<<"marketSymbol", marketSymbol>>, <<"direction", direction>>,
                         <<"type", type>>, <<"quantity", quantity>>, <<"ceiling", ceiling>>,
                         <<"limit", limit>>, <<"timeInForce", timeInForce>>,
                         <<"clientOrderId", clientOrderId>>, <<"useAwards", useAwards>>>>
    IN /\ rev = "v3"
       /\ IF err # "" THEN Throw("v3.sendOrder", a, err)
          ELSE Await("v3.sendOrder", a, requestAuth("POST", "/orders", Wrapped(requestBody), now))

getOpenOrders ==
  \E marketSymbol \in OptionalMarkets, now \in Times :
    LET clientOrderId == Str("open")
        requestBody == <<<<"marketSymbol", marketSymbol>>>>
    IN /\ rev = "v3"
       /\ Await("v3.getOpenOrders", <<marketSymbol>>,
                requestAuth("GET", "/orders/" \o ToStr(clientOrderId), Wrapped(requestBody), now))

cancelOrder_v3 ==
  \E id \in OrderIds, now \in Times :
    LET clientOrderId == Default(id, Str("open"))
        marketSymbol == Undefined
        requestBody == <<<<"marketSymbol", marketSymbol>>>>
    IN /\ rev = "v3"
       /\ Await("v3.cancelOrder", <<id, marketSymbol>>,
                requestAuth("DELETE", "/orders/" \o ToStr(clientOrderId), Wrapped(requestBody), now))

getOrderHistory ==
  \E marketSymbol \in OptionalMarkets, now \in Times :
    LET requestBody == <<<<"marketSymbol", marketSymbol>>, <<"nextPageToken", Undefined>>,
                         <<"previousPageToken", Undefined>>, <<"pageSize", Undefined>>,
                         <<"startDate", Undefined>>, <<"endDate", Undefined>>>>
    IN /\ rev = "v3"
       /\ Await("v3.getOrderHistory", <<marketSymbol>>,
                requestAuth("GET", "/account/getorderhistory", Wrapped(requestBody), now))

balance_v3 ==
  \E currencySymbol \in Currencies, now \in Times :
    /\ rev = "v3"
    /\ Await("v3.balance", <<currencySymbol>>,
             requestAuth("GET", "/balances/" \o ToStr(currencySymbol), <<>>, now))

getNewDepositAddress ==
  \E currencySymbol \in Currencies, now \in Times :
    LET requestBody == <<<<"currencySymbol", currencySymbol>>>>
    IN /\ rev = "v3"
       /\ IF Falsy(currencySymbol)
            THEN Throw("v3.getNewDepositAddress", <<currencySymbol>>, "currencySymbol is required")
            ELSE Await("v3.getNewDepositAddress", <<currencySymbol>>,
                       requestAuth("POST", "/addresses", Wrapped(requestBody), now))

getAddresses ==
  \E currencySymbol \in OptionalCurrencies, now \in Times :
    /\ rev = "v3"
    /\ Await("v3.getAddresses", <<currencySymbol>>,
             requestAuth("GET", "/addresses/" \o ToStr(currencySymbol), <<>>, now))

requestWithdrawal ==
  \E args \in Calls(Currencies, WithdrawalArgs, <<Num("2"), Str("addr"), Undefined, Undefined>>),
     now \in Times :
    LET currencySymbol == args[1]
        quantity == args[2]
        cryptoAddress == args[3]
        cryptoAdressTag == args[4]
        clientWithdrawalId == args[5]
        requestBody == <<<<"currencySymbol", currencySymbol>>, <<"quantity", quantity>>,
                         <<"cryptoAddress", cryptoAddress>>,
                         <<"cryptoAdressTag", cryptoAdressTag>>,
                         <<"clientWithdrawalId", clientWithdrawalId>>>>
    IN /\ rev = "v3"
       /\ IF Falsy(currencySymbol) THEN Throw("v3.requestWithdrawal", args, "currencySymbol is required")
          ELSE IF Falsy(quantity) THEN Throw("v3.requestWithdrawal", args, "quantity is required")
          ELSE IF Falsy(cryptoAddress) THEN Throw("v3.requestWithdrawal", args, "address is required")
          ELSE Await("v3.requestWithdrawal", args,
                     requestAuth("POST", "/withdrawals", Wrapped(requestBody), now))

withdrawalHistory_v3 ==
  \E o \in Flags, currencySymbol \in OptionalCurrencies, now \in Times :
    LET open == Default(o, Bool(TRUE))
        requestBody == <<<<"currencySymbol", currencySymbol>>, <<"status", Undefined>>>>
    IN /\ rev = "v3"
       /\ IF Truthy(open)
            THEN Await("v3.withdrawalHistory", <<o, currencySymbol>>,
                       requestAuth("GET", "/withdrawals/open", Wrapped(requestBody), now))
            ELSE Await("v3.withdrawalHistory", <<o, currencySymbol>>,
                       requestAuth("GET", "/withdrawals/closed", Wrapped(requestBody), now))

cancelWithdrawal ==
  \E withdrawalId \in OrderIds, now \in Times :
    /\ rev = "v3"
    /\ IF Falsy(withdrawalId)
         THEN Throw("v3.cancelWithdrawal", <<withdrawalId>>, "withdrawalId is required")
         ELSE Await("v3.cancelWithdrawal", <<withdrawalId>>,
                    requestAuth("DELETE", "/withdrawals/" \o ToStr(withdrawalId), <<>>, now))

depositHistory_v3 ==
  \E pend \in {Undefined, Bool(TRUE)}, currencySymbol \in OptionalCurrencies, now \in Times :
    LET pending_ == Default(pend, Bool(FALSE))
        requestBody == <<<<"currencySymbol", currencySymbol>>>>
    IN /\ rev = "v3"
       /\ IF Truthy(pending_)
            THEN Await("v3.depositHistory", <<pend, currencySymbol>>,
                       requestAuth("GET", "/deposits/open", Wrapped(requestBody), now))
            ELSE Await("v3.depositHistory", <<pend, currencySymbol>>,
                       requestAuth("GET", "/deposits/closed", Wrapped(requestBody), now))

(***************************************************************************)
(* Revision v2 (src/unnamed/part_001:1074-1614): its request, signature,   *)
(* sanitizeParams and parseDates are those of revision v1, statement for   *)
(* statement.                                                              *)
(***************************************************************************)
\* sendOrder(market, direction, type, {quantity=null, ceiling=null, limit=null,
\* timeInForce='GOOD_TIL_CANCELLED'}, clientOrderId, useAwards): the order is
\* passed to request as its options, which have no key `params`
sendOrder_v2 ==
  \E a \in OrderArgs :
    LET market == a[1]
        direction == a[2]
        type == a[3]
        quantity == Default(a[4], Null)
        ceiling == Default(a[5], Null)
        limit == Default(a[6], Null)
        timeInForce == Default(a[7], Str("GOOD_TIL_CANCELLED"))
        e == sendOrderError(market, direction, type, quantity, ceiling, limit, timeInForce)
        err == IF Falsy(market) THEN "market is required" ELSE e
        requestBody == <<<<"market", market>>, <<"direction", direction>>, <<"type", type>>,
                         <<"quantity", quantity>>, <<"ceiling", ceiling>>, <<"limit", limit>>,
                         <<"timeInForce", timeInForce>>, <<"clientOrderId", Undefined>>,
                         <<"useAwards", Undefined>>>>
    IN /\ rev = "v2"
       /\ IF err # "" THEN Throw("v2.sendOrder", a, err)
          ELSE Await("v2.sendOrder", a, request("post", "/orders", requestBody))

\* the promise an async method returns while the response it awaits is pending
PendingPromise == [t |-> "promise", s |-> "", o |-> <<>>]

\* `const results = this.request(...)` without await, then parseDates(results,
\* keys): request runs up to its own await, which hands the request to the
\* transport, and returns a pending promise; parseDates is applied to that
\* promise, and nothing awaits the response
Unawaited(op, args, cfg, keys) ==
  LET r == parseDates(PendingPromise, keys)
  IN /\ ncalls < MaxCalls
     /\ ncalls' = ncalls + 1
     /\ nonce' = cfg.nonce
     /\ log' = Append(log, [call |-> ncalls + 1, nonce |-> Get(cfg.params, "nonce")])
     /\ done' = [id |-> ncalls + 1, op |-> op, args |-> args,
                 status |-> IF r.threw THEN "threw" ELSE "returned",
                 kind |-> IF r.threw THEN "TypeError" ELSE "",
                 message |-> IF r.threw THEN "results is not iterable" ELSE "",
                 value |-> r.value, answer |-> NoAnswer]
     /\ UNCHANGED <<rev, apiKey, apiSecret, seed, pending>>

\* cancelOrder(clientOrderId='open', market)
cancelOrder_v2 ==
  \E clientOrderId \in Uuids, market \in OptionalMarkets :
    LET requestBody == <<<<"market", market>>>>
    IN /\ rev = "v2"
       /\ Unawaited("v2.cancelOrder", <<clientOrderId, market>>,
                    request("delete", "/orders/" \o ToStr(Default(clientOrderId, Str("open"))),
                            requestBody),
                    <<"createdAt", "updatedAt", "closedAt">>)

balances_v2 ==
  /\ rev = "v2"
  /\ Unawaited("v2.balances", <<>>, request("get", "/balances", <<>>), <<"updatedAt">>)

balance_v2 ==
  \E currency \in Currencies :
    /\ rev = "v2"
    /\ IF Falsy(currency) THEN Throw("v2.balance", <<currency>>, "currency is required")
       ELSE Unawaited("v2.balance", <<currency>>,
                      request("get", "/balances/" \o ToStr(currency), <<>>), <<"updatedAt">>)

(***************************************************************************)
(* What the transport can settle a request with: a rejection (a network    *)
(* failure) or a response whose data is the exchange's answer.  The shape  *)
(* of each payload is the one the methods' documentation gives.            *)
(***************************************************************************)
Messages == {"INSUFFICIENT_FUNDS"}
NetworkErrors == {"ETIMEDOUT"}

\* the keys each method of revisions v1 and v2 passes to parseDates
dateKeys(op) ==
  CASE op = "markets" -> <<"Created">>
    [] op \in {"marketSummaries", "marketSummary"} -> <<"TimeStamp", "Created">>
    [] op = "marketHistory" -> <<"TimeStamp">>
    [] op = "openOrders" -> <<"Opened">>
    [] op = "orderHistory" -> <<"TimeStamp", "Closed">>
    [] op = "order" -> <<"Opened", "Closed">>
    [] op \in {"withdrawalHistory", "depositHistory"} -> <<"LastUpdated">>
    [] op \in {"v2.sendOrder", "v2.cancelOrder"} -> <<"createdAt", "updatedAt", "closedAt">>
    [] op \in {"v2.balances", "v2.balance"} -> <<"updatedAt">>
    [] OTHER -> <<>>

\* the keys each method of revision v3 passes to parseDates
dateKeys_v3(op) ==
  CASE op = "v3.markets" -> <<"createdAt">>
    [] op \in {"v3.marketSummaries", "v3.marketSummary", "v3.balance"} -> <<"updatedAt">>
    [] op = "v3.marketTrades" -> <<"executedAt">>
    [] op \in {"v3.getCandlesRecent", "v3.getCandlesHistorical"} -> <<"startsAt">>
    [] op \in {"v3.sendOrder", "v3.getOpenOrders", "v3.cancelOrder", "v3.getOrderHistory"}
         -> <<"createdAt", "updatedAt", "closedAt">>
    [] op \in {"v3.requestWithdrawal", "v3.withdrawalHistory", "v3.cancelWithdrawal",
               "v3.depositHistory"} -> <<"createdAt", "completedAt">>
    [] OTHER -> <<>>

\* the date fields an operation designates
designated(op) == IF rev \in {"v1", "v2"} THEN dateKeys(op) ELSE dateKeys_v3(op)

SingleObject(op, args) ==
  \/ op \in {"marketSummary", "orderBook", "buyLimit", "sellLimit", "cancelOrder", "balance",
             "depositAddress", "withdraw", "order"}
  \/ op \in {"v2.sendOrder"}
  \/ op \in {"v3.marketSummary", "v3.orderBook", "v3.sendOrder", "v3.getNewDepositAddress",
             "v3.requestWithdrawal", "v3.cancelWithdrawal"}
  \/ op \in {"ticker", "v3.ticker", "v3.balance", "v3.getAddresses"} /\ Truthy(args[1])

\* an entity without a date field, with one, and with a null one
Entity(op, date) ==
  LET k == IF designated(op) = <<>> THEN "TimeStamp" ELSE Head(designated(op))
      base == <<<<"symbol", Str("BTC-USD")>>>>
  IN IF date = Undefined THEN Obj(base) ELSE Obj(Append(base, <<k, date>>))

Timestamp == Str("2020-01-01T00:00:00")

\* the payloads of an operation that designates date fields differ in them
Payloads(op, args) ==
  IF designated(op) = <<>>
    THEN IF SingleObject(op, args) THEN {Entity(op, Undefined)}
         ELSE {Arr(<<Entity(op, Undefined)>>)}
  ELSE IF SingleObject(op, args)
    THEN {Entity(op, Undefined), Entity(op, Timestamp), Entity(op, Null)}
    ELSE {Arr(<<>>), Arr(<<Entity(op, Undefined)>>),
          Arr(<<Entity(op, Timestamp), Entity(op, Null)>>)}

Envelope(success, message, result) ==
  Obj(<<<<"success", Bool(success)>>, <<"message", Str(message)>>, <<"result", result>>>>)

Answers(op, args) ==
  {[ok |-> FALSE, error |-> e, data |-> Undefined] : e \in NetworkErrors}
  \cup {[ok |-> TRUE, error |-> "", data |-> Envelope(FALSE, m, Null)] : m \in Messages}
  \cup {[ok |-> TRUE, error |-> "", data |-> Envelope(TRUE, "", P)] : P \in Payloads(op, args)}

(***************************************************************************)
(* The continuations of revision v1: request after its await, then the     *)
(* rest of the method that awaited it.                                     *)
(***************************************************************************)
Outcome(status, kind, message, value) ==
  [status |-> status, kind |-> kind, message |-> message, value |-> value]

\* what the method does with the result of request
resume(op, result) ==
  IF dateKeys(op) = <<>> THEN Outcome("returned", "", "", result)
  ELSE LET r == IF op = "order" THEN parseDates(Arr(<<result>>), dateKeys(op))
                ELSE parseDates(result, dateKeys(op))
       IN IF r.threw THEN Outcome("threw", "TypeError", "results is not iterable", Undefined)
          ELSE Outcome("returned", "", "", IF op = "order" THEN r.value.o[1] ELSE r.value)

settled_unchecked(op, answer) ==
  IF ~answer.ok THEN Outcome("threw", "TransportError", answer.error, Undefined)
  ELSE resume(op, Get(answer.data.o, "result"))

settled_swallowing(op, answer) ==
  IF ~answer.ok THEN Outcome("returned", "", "", Undefined)
  ELSE IF ~Truthy(Get(answer.data.o, "success"))
    THEN Outcome("threw", "ExchangeError", ToStr(Get(answer.data.o, "message")), Undefined)
  ELSE resume(op, Get(answer.data.o, "result"))

\* request from `const { data } = await ...` on
settled(op, answer) ==
  IF ~answer.ok THEN Outcome("threw", "TransportError", answer.error, Undefined)
  ELSE IF ~Truthy(Get(answer.data.o, "success"))
    THEN Outcome("threw", "ExchangeError", ToStr(Get(answer.data.o, "message")), Undefined)
  ELSE resume(op, Get(answer.data.o, "result"))

Complete_retrying(p, answer, out) ==
  /\ pending' = IF out.status = "threw" THEN pending ELSE pending \ {p}
  /\ log' = IF out.status = "threw"
              THEN Append(log, [call |-> p.id, nonce |-> Get(p.params, "nonce")])
              ELSE log
  /\ done' = [id |-> p.id, op |-> p.op, args |-> p.args, status |-> out.status,
              kind |-> out.kind, message |-> out.message, value |-> out.value,
              answer |-> answer]
  /\ UNCHANGED <<rev, apiKey, apiSecret, seed, nonce, ncalls>>

Complete_refunding(p, answer, out) ==
  /\ pending' = pending \ {p}
  /\ nonce' = IF out.status = "threw" THEN nonce - 1 ELSE nonce
  /\ done' = [id |-> p.id, op |-> p.op, args |-> p.args, status |-> out.status,
              kind |-> out.kind, message |-> out.message, value |-> out.value,
              answer |-> answer]
  /\ UNCHANGED <<rev, apiKey, apiSecret, seed, ncalls, log>>

Complete(p, answer, out) ==
  /\ pending' = pending \ {p}
  /\ done' = [id |-> p.id, op |-> p.op, args |-> p.args, status |-> out.status,
              kind |-> out.kind, message |-> out.message, value |-> out.value,
              answer |-> answer]
  /\ UNCHANGED <<rev, apiKey, apiSecret, seed, nonce, ncalls, log>>

Respond_unsettled ==
  \E p \in pending :
    \E answer \in Answers(p.op, p.args) :
      /\ rev \in {"v1", "v2"}
      /\ p.id = 1
      /\ Complete(p, answer, settled(p.op, answer))

Respond ==
  \E p \in pending :
    \E answer \in Answers(p.op, p.args) :
      /\ rev \in {"v1", "v2"}
      /\ Complete(p, answer, settled(p.op, answer))

(***************************************************************************)
(* The continuations of revision v3.  parseDates of this revision has its  *)
(* loops commented out and returns its argument.                           *)
(***************************************************************************)
parseDates_v3(results, keys) == results

\* the error object the exchange of revision v3 refuses an order with
Codes == {"INSUFFICIENT_FUNDS"}
ErrorObject(code) == Obj(<<<<"code", Str(code)>>>>)

\* a refusal reaches the client as the body of a response with an error status,
\* which axios turns into a rejection (data: the body, error.response.data), or
\* as the body of an ordinary response
Refusals(op) ==
  IF op = "v3.sendOrder"
    THEN {[ok |-> FALSE, error |-> "Request failed with status code 409", data |-> ErrorObject(c)]
            : c \in Codes}
         \cup {[ok |-> TRUE, error |-> "", data |-> ErrorObject(c)] : c \in Codes}
    ELSE {}

\* the exchange of revision v3 answers with the payload itself
Answers_v3(op, args) ==
  {[ok |-> FALSE, error |-> e, data |-> Undefined] : e \in NetworkErrors}
  \cup {[ok |-> TRUE, error |-> "", data |-> Str("")]}
  \cup {[ok |-> TRUE, error |-> "", data |-> P] : P \in Payloads(op, args)}
  \cup Refusals(op)

\* request and requestAuth from `const {data} = await ...` on, then the method.
\* cancelOrder and balance pass the promise itself to parseDates, which returns
\* it: the caller awaits the same outcome
settled_v3(op, answer) ==
  IF ~answer.ok THEN Outcome("threw", "TransportError", answer.error, Undefined)
  ELSE IF Falsy(answer.data) THEN Outcome("threw", "NoResponse", "No Response", Undefined)
  ELSE IF dateKeys_v3(op) = <<>> THEN Outcome("returned", "", "", answer.data)
  ELSE Outcome("returned", "", "", parseDates_v3(answer.data, dateKeys_v3(op)))

Respond_v3 ==
  \E p \in pending :
    \E answer \in Answers_v3(p.op, p.args) :
      /\ rev = "v3"
      /\ Complete(p, answer, settled_v3(p.op, answer))

Next ==
  \/ markets \/ currencies \/ ticker \/ marketSummaries \/ marketSummary
  \/ marketHistory \/ orderBook \/ buyLimit \/ sellLimit \/ cancelOrder
  \/ openOrders \/ balances \/ balance \/ depositAddress \/ withdraw
  \/ orderHistory \/ order \/ withdrawalHistory \/ depositHistory
  \/ Respond
  \/ markets_v3 \/ currencies_v3 \/ ticker_v3 \/ marketSummaries_v3 \/ marketSummary_v3
  \/ marketTrades \/ orderBook_v3 \/ getCandlesRecent \/ getCandlesHistorical
  \/ sendOrder \/ getOpenOrders \/ cancelOrder_v3 \/ getOrderHistory \/ balance_v3
  \/ getNewDepositAddress \/ getAddresses \/ requestWithdrawal \/ withdrawalHistory_v3
  \/ cancelWithdrawal \/ depositHistory_v3
  \/ Respond_v3
  \/ sendOrder_v2 \/ cancelOrder_v2 \/ balances_v2 \/ balance_v2

Spec == Init /\ [][Next]_vars

(***************************************************************************)
(* Notions the properties are stated with.                                 *)
(***************************************************************************)
\* the number of requests handed to the transport during call id
Requests(id) == Cardinality({i \in 1..Len(log) : log[i].call = id})

\* the client signs with scheme A
SchemeA == rev \in {"v1", "v2"} /\ Truthy(apiKey)

\* the number a transmitted nonce parameter denotes
NonceValue(v) == CHOOSE n \in seed..(seed + Len(log) + 1) : ToString(n) = v.s

\* the exchange's answer to the completed call is a success / a failure envelope
Succeeded == rev \in {"v1", "v2"} /\ done.answer.ok /\ Get(done.answer.data.o, "success") = Bool(TRUE)
Refused == rev \in {"v1", "v2"} /\ done.answer.ok /\ Get(done.answer.data.o, "success") = Bool(FALSE)

\* the payload of the answer to the completed call
Payload == IF rev \in {"v1", "v2"} THEN Get(done.answer.data.o, "result") ELSE done.answer.data

\* the entities of a payload: the elements of an array, or the single object
EntitiesOf(P) == IF P.t = "array" THEN {P.o[i] : i \in 1..Len(P.o)} ELSE {P}

\* date normalization as the specification describes it: every designated field
\* that is present and truthy becomes a date, in a single object as in each
\* element of an array, and nothing else changes
NormalizedEntity(e, keys) ==
  Obj([i \in 1..Len(e.o) |->
         IF e.o[i][1] \in {keys[j] : j \in 1..Len(keys)} /\ Truthy(e.o[i][2])
           THEN <<e.o[i][1], DateOf(ToStr(e.o[i][2]) \o "Z")>>
           ELSE e.o[i]])

Normalized(P, keys) ==
  IF P.t = "array" THEN Arr([i \in 1..Len(P.o) |-> NormalizedEntity(P.o[i], keys)])
  ELSE NormalizedEntity(P, keys)

\* the operations that require a market or currency symbol as first argument
SymbolOps ==
  {"marketSummary", "marketHistory", "orderBook", "buyLimit", "sellLimit", "balance",
   "depositAddress", "withdraw",
   "v3.marketSummary", "v3.marketTrades", "v3.orderBook", "v3.getCandlesRecent",
   "v3.getCandlesHistorical", "v3.balance", "v3.getNewDepositAddress",
   "v3.requestWithdrawal"}

(***************************************************************************)
(* C1.  Every operation that requires a market or currency symbol, called  *)
(* with the symbol absent or empty, fails with InvalidArgument and hands   *)
(* no request to the transport: no such call is ever in flight, and when   *)
(* it has completed it threw InvalidArgument and issued no request.        *)
(* Violated by getCandlesHistorical and balance of revision v3.            *)
(***************************************************************************)
C1_MissingSymbolRejected ==
  /\ \A p \in pending : p.op \in SymbolOps => Truthy(p.args[1])
  /\ (done.op \in SymbolOps /\ Falsy(done.args[1]))
       => (done.kind = "InvalidArgument" /\ Requests(done.id) = 0)

(***************************************************************************)
(* C2.  A call with valid arguments hands exactly one request to the       *)
(* transport, and when the exchange answers it with a success envelope     *)
(* {success: true, result: P} the call returns P, date-normalized where    *)
(* the operation normalizes.  Violated by marketSummary, whose payload is  *)
(* a single object.                                                        *)
(***************************************************************************)
C2_OneRequestAndUnwrappedResult ==
  /\ \A p \in pending : Requests(p.id) = 1
  /\ (done.status # "none" /\ done.kind # "InvalidArgument") => Requests(done.id) = 1
  /\ Succeeded => (done.status = "returned"
                   /\ done.value = Normalized(Payload, dateKeys(done.op)))

C4_NonceStrictlyIncreasing ==
  SchemeA => \A i, j \in 1..Len(log) :
               i < j => NonceValue(log[i].nonce) < NonceValue(log[j].nonce)

C4_Witness ==
  /\ SchemeA
  /\ Len(log) >= 2
  /\ NonceValue(log[1].nonce) < NonceValue(log[2].nonce)

(***************************************************************************)
(* C5.  Calls that overlap (a call starts while another still awaits its   *)
(* response) obtain distinct nonces, and no increment is lost: the counter *)
(* has advanced by one for every request created.                          *)
(***************************************************************************)
C5_ConcurrentNoncesDistinct ==
  SchemeA =>
    /\ \A p, q \in pending : p.id # q.id => Get(p.params, "nonce") # Get(q.params, "nonce")
    /\ nonce = seed + Len(log)

C5_Witness ==
  /\ SchemeA
  /\ \E p, q \in pending :
       /\ p.id # q.id
       /\ Get(p.params, "nonce") = Num(ToString(seed + 1))
       /\ Get(q.params, "nonce") = Num(ToString(seed + 2))

(***************************************************************************)
(* C6.  The API secret is never transmitted: no request handed to the      *)
(* transport has the secret as its URL, as the value of a parameter, of a  *)
(* header or of a field of its content.                                    *)
(***************************************************************************)
ValuesOf(o) == {o[i][2] : i \in 1..Len(o)}

\* the values a request carries: its parameters, its headers, its content and
\* the fields of the objects in its content
Transmitted(p) ==
  ValuesOf(p.params) \cup ValuesOf(p.headers) \cup {p.content}
    \cup ValuesOf(p.content.o)
    \cup UNION {ValuesOf(v.o) : v \in {w \in ValuesOf(p.content.o) : w.t = "object"}}

C6_SecretNeverTransmitted ==
  Truthy(apiSecret) =>
    \A p \in pending : apiSecret \notin Transmitted(p) /\ p.url # apiSecret.s

C6_Witness ==
  /\ Truthy(apiSecret)
  /\ \E p \in pending :
       /\ p.op = "balance"
       /\ Get(p.headers, "apisign").t = "string"
       /\ Get(p.params, "apikey") = apiKey

(***************************************************************************)
(* C7.  Sanitization returns exactly the keys whose value is not undefined,*)
(* each with its original value: what sanitizeParams (revision v1) and     *)
(* sanitizeRequestBody (revision v3) made of the object they were given.   *)
(***************************************************************************)
\* the sanitized object of a request: the nonce and the apikey are added to it
\* after sanitization
Sanitized(p) ==
  IF rev \in {"v1", "v2"} THEN SelectSeq(p.params, LAMBDA f : f[1] \notin {"nonce", "apikey"})
  ELSE p.content.o

C7_SanitizeDropsUndefined ==
  \A p \in pending :
    p.content # Undefined \/ rev \in {"v1", "v2"} =>
      /\ Keys(Sanitized(p)) = {k \in Keys(p.raw) : Get(p.raw, k) # Undefined}
      /\ \A k \in Keys(Sanitized(p)) : Get(Sanitized(p), k) = Get(p.raw, k)

C7_Witness ==
  \E p \in pending :
    /\ p.op = "withdraw"
    /\ Get(p.raw, "paymentid") = Undefined
    /\ "paymentid" \in Keys(p.raw)
    /\ Keys(Sanitized(p)) = {"currency", "quantity", "address"}

(***************************************************************************)
(* C8.  In the authenticated operations of revision v3 that take optional  *)
(* fields, a body field the caller did not provide is dropped: it does not *)
(* appear in the content of the request.  Violated: the methods pass       *)
(* { requestBody } and sanitizeRequestBody looks at that wrapper only.     *)
(***************************************************************************)
OptionalFieldOps ==
  {"v3.sendOrder", "v3.getOpenOrders", "v3.cancelOrder", "v3.getOrderHistory",
   "v3.requestWithdrawal", "v3.withdrawalHistory", "v3.depositHistory"}

C8_AbsentBodyFieldsDropped ==
  \A p \in pending :
    p.op \in OptionalFieldOps =>
      \A v \in ValuesOf(p.content.o) :
        v # Undefined /\ (v.t = "object" => Undefined \notin ValuesOf(v.o))

(***************************************************************************)
(* C9.  Date normalization of a response whose objects lack the designated *)
(* date fields (or hold a falsy value there) does not raise and leaves the *)
(* objects unchanged.  Violated when the response is a single object.      *)
(***************************************************************************)
NoDates(P, keys) ==
  \A e \in EntitiesOf(P) : \A j \in 1..Len(keys) : Falsy(Get(e.o, keys[j]))

C9_AbsentDateFieldsUntouched ==
  (/\ done.answer.ok
   /\ rev \in {"v1", "v2"} => Succeeded
   /\ rev = "v3" => Truthy(done.answer.data)
   /\ designated(done.op) # <<>>
   /\ NoDates(Payload, designated(done.op)))
    => (done.status = "returned" /\ done.value = Payload)

(***************************************************************************)
(* C10.  Date normalization is uniform: an operation whose payload is a    *)
(* single object completes without error and returns the object with each  *)
(* present designated date field converted, as the elements of an array    *)
(* payload are.  Violated by marketSummary in both revisions.              *)
(***************************************************************************)
C10_SingleObjectNormalized ==
  (/\ done.answer.ok
   /\ rev \in {"v1", "v2"} => Succeeded
   /\ rev = "v3" => Truthy(done.answer.data)
   /\ designated(done.op) # <<>>
   /\ Payload.t = "object")
    => (done.status = "returned" /\ done.value = Normalized(Payload, designated(done.op)))

(***************************************************************************)
(* C11.  Signature determinism: the signature of a request is a function   *)
(* of the secret, the path, the parameters and the nonce (scheme A) or of  *)
(* the secret, the timestamp, the path, the method and the body (scheme B).*)
(* Computing it again in any later state of the client, after other calls  *)
(* were made and the counter advanced, gives the signature that was sent;  *)
(* and two requests that agree on these inputs carry the same signature.   *)
(***************************************************************************)
\* the requests of revision v3 that went through requestAuth
Signed(p) == rev = "v3" /\ "signedMessage" \in Keys(p.headers)

\* the time a signed request of revision v3 was stamped with
TimeOf(p) == CHOOSE t \in Times : Num(ToString(t)) = Get(p.headers, "timestamp")

RECURSIVE QueryOf(_)
QueryOf(params) ==
  IF params = <<>> THEN ""
  ELSE IF Len(params) = 1 THEN params[1][1] \o "=" \o params[1][2].s
  ELSE params[1][1] \o "=" \o params[1][2].s \o "&" \o QueryOf(Tail(params))

\* the string the signature of a request has to cover
SignedURL(p) == baseURL \o p.url \o "?" \o QueryOf(p.params)

C12_SignatureCoversTransmittedParams ==
  SchemeA =>
    /\ \A p \in pending :
         /\ {"nonce", "apikey"} \subseteq Keys(p.params)
         /\ Get(p.headers, "apisign") = Str(HmacSHA512(SignedURL(p), apiSecret.s))
    /\ \A p, q \in pending :
         (p.params # q.params \/ p.url # q.url)
           => (/\ SignedURL(p) # SignedURL(q)
               /\ Get(p.headers, "apisign") # Get(q.headers, "apisign"))

C12_Witness ==
  /\ SchemeA
  /\ \E p, q \in pending :
       /\ p.op = "buyLimit" /\ q.op = "buyLimit"
       /\ Get(p.params, "timeInForce") = Str("GTC")
       /\ Get(q.params, "timeInForce") = Str("IOC")
       /\ Keys(p.params) = {"market", "quantity", "rate", "timeInForce", "nonce", "apikey"}
       /\ Get(p.headers, "apisign") # Get(q.headers, "apisign")

(***************************************************************************)
(* C13.  Under scheme B the signed string is the concatenation of the      *)
(* timestamp, the full path (the base URL followed by the endpoint path),  *)
(* the method and the content hash, in this order; and the API key, the    *)
(* timestamp, the content hash and the signature are four headers of the   *)
(* request.  Violated: requestAuth reads this._client.baseURL, which the   *)
(* axios instance does not have, and signs "undefined" in place of the     *)
(* base URL.                                                               *)
(***************************************************************************)
\* the string scheme B has to sign for a request
PreSignOf(p) ==
  Get(p.headers, "timestamp").s \o baseURL \o p.url \o p.method
    \o Get(p.headers, "contentHash").s

C13_SchemeBSignedString ==
  \A p \in pending :
    Signed(p) =>
      /\ Keys(p.headers) = {"apiKey", "timestamp", "contentHash", "signedMessage"}
      /\ Get(p.headers, "apiKey") = apiKey
      /\ Get(p.headers, "signedMessage") = Str(HmacSHA512(PreSignOf(p), apiSecret.s))

(***************************************************************************)
(* C14.  Under scheme B the content hash of a request is the SHA-512 hash  *)
(* of the body transmitted with it: requests whose sanitized bodies differ *)
(* carry different content hashes, and the body that was hashed is the     *)
(* body the transport sends.  Violated: the hash is taken over the text    *)
(* `${content}` of an object, which is "[object Object]" for every body,   *)
(* and the body is handed to the transport under a key it does not send.   *)
(***************************************************************************)
C14_ContentHashOfBody ==
  /\ \A p, q \in pending :
       (Signed(p) /\ Signed(q) /\ p.content # q.content)
         => Get(p.headers, "contentHash") # Get(q.headers, "contentHash")
  /\ \A p \in pending : Signed(p) => bodySent(p) = p.content

(***************************************************************************)
(* C15.  buyLimit and sellLimit accept the time-in-force values IOC and    *)
(* GTC, GTC being used when none is given; with any other value the call   *)
(* fails with InvalidArgument and hands no request to the transport.       *)
(***************************************************************************)
LimitOps == {"buyLimit", "sellLimit"}

\* the time-in-force values the limit orders allow
AllowedTimeInForce == {Str("IOC"), Str("GTC")}

\* the call has a market, a quantity and a rate
LimitFieldsGiven(args) == Truthy(args[1]) /\ Truthy(args[2]) /\ Truthy(args[3])

C15_LimitTimeInForce ==
  /\ \A p \in pending :
       p.op \in LimitOps =>
         /\ Get(p.params, "timeInForce") \in AllowedTimeInForce
         /\ Get(p.params, "timeInForce") = Default(p.args[4], Str("GTC"))
  /\ (done.op \in LimitOps /\ LimitFieldsGiven(done.args))
       => (done.kind = "InvalidArgument"
             <=> Default(done.args[4], Str("GTC")) \notin AllowedTimeInForce)
  /\ (done.op \in LimitOps /\ done.kind = "InvalidArgument") => Requests(done.id) = 0

C15_Witness ==
  /\ done.op = "sellLimit"
  /\ LimitFieldsGiven(done.args)
  /\ done.args[4] = Str("FOK")
  /\ done.kind = "InvalidArgument"
  /\ done.message = "options.timeInForce not IOC or GTC"
  /\ \E p \in pending : p.op = "buyLimit" /\ p.args[4] = Undefined
                        /\ Get(p.params, "timeInForce") = Str("GTC")

(***************************************************************************)
(* C16.  sendOrder checks membership of its enumerated arguments: with a   *)
(* market, a direction in {BUY, SELL}, a type in {LIMIT, MARKET,           *)
(* CEILING_LIMIT, CEILING_MARKET}, a documented timeInForce and the fields *)
(* the type requires, validation passes and one order request is issued;   *)
(* with a direction, type or timeInForce outside its set the call fails    *)
(* with InvalidArgument and issues no request.  Violated: only BUY, LIMIT  *)
(* and GOOD_TIL_CANCELLED pass.                                            *)
(***************************************************************************)
SendOps == {"v2.sendOrder", "v3.sendOrder"}

\* the time in force of a call of sendOrder
TimeInForceOf(a) == Default(a[7], Str("GOOD_TIL_CANCELLED"))

\* the enumerated arguments of a call of sendOrder are in their documented sets
Enumerated(a) ==
  a[2] \in Directions /\ a[3] \in OrderTypes /\ TimeInForceOf(a) \in OrderTimesInForce

\* the fields of a call of sendOrder are those its type requires: quantity with
\* LIMIT and MARKET, ceiling with the CEILING types, limit with the LIMIT types
ConformingFields(a) ==
  /\ Truthy(a[4]) <=> a[3] \in {Str("LIMIT"), Str("MARKET")}
  /\ Truthy(a[5]) <=> a[3] \in {Str("CEILING_LIMIT"), Str("CEILING_MARKET")}
  /\ Truthy(a[6]) <=> a[3] \in {Str("LIMIT"), Str("CEILING_LIMIT")}

C16_SendOrderMembership ==
  /\ \A p \in pending : p.op \in SendOps => Enumerated(p.args)
  /\ done.op \in SendOps /\ Truthy(done.args[1]) =>
       /\ (Enumerated(done.args) /\ ConformingFields(done.args))
            => (done.kind # "InvalidArgument" /\ Requests(done.id) = 1)
       /\ ~Enumerated(done.args)
            => (done.kind = "InvalidArgument" /\ Requests(done.id) = 0)

(***************************************************************************)
(* C17.  sendOrder enforces the type-dependent field rules before any      *)
(* request: among the calls with a market and enumerated arguments in      *)
(* their sets, exactly those whose fields violate the rules of their type  *)
(* fail with InvalidArgument, and they issue no request.  Violated: the    *)
(* conforming orders of every type but LIMIT are rejected.                 *)
(***************************************************************************)
C17_SendOrderFieldRules ==
  /\ \A p \in pending : p.op \in SendOps => ConformingFields(p.args)
  /\ (done.op \in SendOps /\ Truthy(done.args[1]) /\ Enumerated(done.args)) =>
       /\ done.kind = "InvalidArgument" <=> ~ConformingFields(done.args)
       /\ done.kind = "InvalidArgument" => Requests(done.id) = 0

(***************************************************************************)
(* C18.  In revision v3, an order placed with valid arguments is not       *)
(* rejected by validation, and when the exchange refuses it with an error  *)
(* object {code: C} the call fails with an error whose message carries C   *)
(* and returns no order.  Violated: the refusal surfaces as the            *)
(* transport's error (or is returned as if it were the order), and a BUY   *)
(* MARKET order with a quantity does not pass validation.                  *)
(***************************************************************************)
\* the exchange refused the completed order
OrderRefused ==
  /\ done.op = "v3.sendOrder"
  /\ done.answer.data.t = "object"
  /\ "code" \in Keys(done.answer.data.o)

\* the messages that carry an error code: the code, or the error object as JSON
Carrying(code) == {code, "{\"code\":\"" \o code \o "\"}"}

C18_OrderRefusalRaisesCode ==
  /\ OrderRefused =>
       /\ done.status = "threw"
       /\ done.message \in Carrying(Get(done.answer.data.o, "code").s)
       /\ done.value = Undefined
  /\ (/\ done.op = "v3.sendOrder"
      /\ Truthy(done.args[1])
      /\ Enumerated(done.args)
      /\ ConformingFields(done.args)) => done.kind # "InvalidArgument"

(***************************************************************************)
(* C19.  orderBook called with a market and a depth transmits that depth   *)
(* as a parameter of the request it issues.  Violated: the depth is passed *)
(* to request as an option, and request reads only the options headers and *)
(* params.                                                                 *)
(***************************************************************************)
OrderBookOps == {"orderBook", "v3.orderBook"}

C19_OrderBookDepthTransmitted ==
  \A p \in pending :
    (p.op \in OrderBookOps /\ Truthy(p.args[2])) => Get(p.params, "depth") = p.args[2]

(***************************************************************************)
(* C20.  The depth of orderBook is optional: called with a market and no   *)
(* depth, orderBook does not fail validation and issues one request.       *)
(* Violated by revision v1, which throws "options.depth is required".      *)
(***************************************************************************)
C20_OrderBookDepthOptional ==
  (done.op \in OrderBookOps /\ Truthy(done.args[1]) /\ done.args[2] = Undefined)
    => (done.kind # "InvalidArgument" /\ Requests(done.id) = 1)

(***************************************************************************)
(* C21.  No operation is retried: no call ever has more than one request   *)
(* handed to the transport on its behalf, and a call whose request failed  *)
(* (the transport failed, or the exchange refused) has issued exactly that *)
(* one request and has none in flight.                                     *)
(***************************************************************************)
\* the completed call failed after its request was handed to the transport
FailedAfterRequest == done.status = "threw" /\ done.kind # "InvalidArgument"

C21_NoRetry ==
  /\ \A id \in 1..ncalls : Requests(id) <= 1
  /\ FailedAfterRequest =>
       /\ Requests(done.id) = 1
       /\ \A p \in pending : p.id # done.id

\* the first call failed at the transport while the second was in flight
C21_Witness ==
  /\ FailedAfterRequest
  /\ done.kind = "TransportError"
  /\ done.id = 1
  /\ Requests(1) = 1
  /\ \E p \in pending : p.id = 2

(***************************************************************************)
(* C22.  A network-level failure of the transport reaches the caller as    *)
(* that same error: the call fails with the transport's error, its message *)
(* unchanged, and returns no result.                                       *)
(***************************************************************************)
\* the transport failed the request of the completed call without a response
NetworkFailure ==
  /\ done.status # "none"
  /\ ~done.answer.ok
  /\ done.answer.error \in NetworkErrors

CallStarted == ncalls' = ncalls + 1 /\ done'.kind # "InvalidArgument"

\* this step hands one new request, that of the call it starts, to the transport
OwnRequestIssued ==
  /\ Len(log') = Len(log) + 1
  /\ log'[Len(log')].call = ncalls'

\* the completed call returned what its own answer holds
OwnViewReturned ==
  (done.status = "returned" /\ done.id > 0) =>
    /\ done.answer.ok
    /\ done.value = Normalized(Payload, IF rev = "v3" THEN <<>> ELSE dateKeys(done.op))

C23_NoCaching ==
  [][/\ CallStarted => OwnRequestIssued
     /\ OwnViewReturned']_vars

C23_Witness ==
  /\ rev = "v1"
  /\ done.id = 2 /\ done.op = "openOrders" /\ done.status = "returned"
  /\ done.value = Normalized(Payload, dateKeys(done.op))
  /\ pending = {}
  /\ Requests(1) = 1 /\ Requests(2) = 1

(***************************************************************************)
(* C24.  ticker called with a non-empty market hands the transport exactly *)
(* one request, for the ticker resource of exactly that market; called     *)
(* without a market it hands exactly one request, for the tickers of all   *)
(* markets.  Violated by ticker of revision v1, whose request for a market *)
(* names /markets/<market>/tickers.                                        *)
(***************************************************************************)
TickerOps == {"ticker", "v3.ticker"}

\* the resource of the ticker of one market, and that of the tickers of all
TickerResource(market) == "/markets/" \o ToStr(market) \o "/ticker"
AllTickersResource == "/markets/tickers"

C24_TickerResource ==
  \A p \in pending :
    p.op \in TickerOps =>
      /\ Requests(p.id) = 1
      /\ p.url = IF Truthy(p.args[1]) THEN TickerResource(p.args[1])
                 ELSE AllTickersResource

(***************************************************************************)
(* C25.  Date normalization happens only after the call succeeded: in      *)
(* every operation that normalizes dates, cancelOrder, balances and        *)
(* balance included, a call that got past validation completes only once   *)
(* its request has been answered, the conversion is applied to the payload *)
(* received, and a call that returns, returns that payload normalized.     *)
(* Violated by cancelOrder, balances and balance of revision v2, which     *)
(* apply parseDates to the pending promise.                                *)
(***************************************************************************)
\* the completed call is of an operation of revisions v1 and v2 that normalizes dates
NormalizingCall ==
  /\ rev \in {"v1", "v2"}
  /\ done.status # "none"
  /\ done.kind # "InvalidArgument"
  /\ dateKeys(done.op) # <<>>

\* the transport has settled the request of the completed call
Answered == done.answer # NoAnswer

C25_NormalizesReceivedPayload ==
  NormalizingCall =>
    /\ Answered
    /\ done.status = "returned" =>
         /\ Succeeded
         /\ done.value = Normalized(Payload, dateKeys(done.op))

(***************************************************************************)
(* C26.  Validation is pure: a step in which a call fails with             *)
(* InvalidArgument leaves the client's state as it was, the nonce counter  *)
(* included, and hands nothing to the transport, so the next authenticated *)
(* request carries the nonce it would have carried without that call.      *)
(***************************************************************************)
\* this step is a call failing validation
ValidationFailed == ncalls' = ncalls + 1 /\ done'.kind = "InvalidArgument"

C26_ValidationPure ==
  [][ValidationFailed => UNCHANGED <<rev, apiKey, apiSecret, seed, nonce, pending, log>>]_vars

C26_Witness ==
  /\ SchemeA
  /\ ncalls = 2
  /\ Requests(1) = 0
  /\ nonce = seed + 1
  /\ \E p \in pending :
       /\ p.id = 2
       /\ p.op = "buyLimit"
       /\ Get(p.params, "nonce") = Num(ToString(seed + 1))

(***************************************************************************)
(* C27.  A client of scheme A constructed without an API key issues its    *)
(* requests unsigned: no request handed to the transport carries a nonce,  *)
(* an apikey or an apisign, and the nonce counter keeps its seed.          *)
(***************************************************************************)
\* the client of revisions v1 and v2 has no API key
Keyless == rev \in {"v1", "v2"} /\ Falsy(apiKey)

C27_KeylessUnsigned ==
  Keyless =>
    /\ nonce = seed
    /\ \A i \in 1..Len(log) : log[i].nonce = Undefined
    /\ \A p \in pending :
         /\ Get(p.params, "nonce") = Undefined
         /\ Get(p.params, "apikey") = Undefined
         /\ Get(p.headers, "apisign") = Undefined

C27_Witness ==
  /\ Keyless
  /\ rev = "v1"
  /\ nonce = seed
  /\ Len(log) = 2
  /\ \E p \in pending : p.op = "markets" /\ p.params = <<>> /\ p.headers = <<>>
  /\ done.op = "orderBook" /\ done.status = "returned"

(***************************************************************************)
(* C28.  Every call terminates, provided the transport eventually answers  *)
(* or fails each request: every call whose request is in flight is, from   *)
(* some moment on, in flight no more, and a call that fails validation     *)
(* completes in the step that starts it, waiting for no request.           *)
(***************************************************************************)
\* the clients of scheme A (revisions v1 and v2), their methods, and a transport
\* that settles every request handed to it
InitSchemeA == Init /\ rev \in {"v1", "v2"}

NextSchemeA ==
  \/ markets \/ currencies \/ ticker \/ marketSummaries \/ marketSummary
  \/ marketHistory \/ orderBook \/ buyLimit \/ sellLimit \/ cancelOrder
  \/ openOrders \/ balances \/ balance \/ depositAddress \/ withdraw
  \/ orderHistory \/ order \/ withdrawalHistory \/ depositHistory
  \/ sendOrder_v2 \/ cancelOrder_v2 \/ balances_v2 \/ balance_v2
  \/ Respond

FairSpec == InitSchemeA /\ [][NextSchemeA]_vars /\ WF_vars(Respond)

\* call id awaits the response to its request
InFlight(id) == \E p \in pending : p.id = id

C28_EveryCallTerminates ==
  /\ \A id \in 1..MaxCalls : <>[](~InFlight(id))
  /\ [][ValidationFailed => (done'.id = ncalls' /\ done'.status = "threw"
                             /\ ~InFlight(ncalls)')]_vars

C28_Witness ==
  /\ rev = "v1"
  /\ done.id = 1 /\ done.op = "marketHistory" /\ done.status = "returned"
  /\ InFlight(2)

(***************************************************************************)
(* C29.  For a client of scheme A with an API key the nonce counter equals *)
(* its seed plus the number of requests created so far, and the k-th       *)
(* request created carries nonce seed + k.  A request whose call failed    *)
(* has consumed its nonce: the counter stays past it and no other request  *)
(* carries it.                                                             *)
(***************************************************************************)
\* the nonce parameter whose value is n
NonceParam(n) == Num(ToString(n))

C29_NonceCountsRequests ==
  SchemeA =>
    /\ nonce = seed + Len(log)
    /\ \A k \in 1..Len(log) : log[k].nonce = NonceParam(seed + k)
    /\ \A p \in pending :
         \E k \in 1..Len(log) : log[k].call = p.id /\ Get(p.params, "nonce") = NonceParam(seed + k)
    /\ FailedAfterRequest =>
         \A k \in 1..Len(log) :
           log[k].call = done.id =>
             /\ nonce >= seed + k
             /\ \A p \in pending : Get(p.params, "nonce") # log[k].nonce

C29_Witness ==
  /\ SchemeA
  /\ FailedAfterRequest /\ done.id = 1 /\ done.kind = "ExchangeError"
  /\ log[1].call = 1 /\ log[1].nonce = NonceParam(seed + 1)
  /\ nonce = seed + 2
  /\ \E p \in pending : p.id = 2 /\ Get(p.params, "nonce") = NonceParam(seed + 2)

(***************************************************************************)
(* C30.  Calls in flight at the same time do not contaminate each other's  *)
(* requests: under scheme A every request transmits, besides its nonce and *)
(* its apikey, exactly the defined parameters its own call passed, and its *)
(* apisign is the signature over those parameters and the nonce created    *)
(* for that same request; requests in flight together are signed apart.    *)
(***************************************************************************)
\* the defined parameters the call of request p passed to request
OwnParams(p) == SelectSeq(p.raw, LAMBDA e : e[2] # Undefined)

\* the nonce created for the request of call id
NonceOfCall(id) == log[CHOOSE k \in 1..Len(log) : log[k].call = id].nonce

\* what request p transmits when nothing but its own call went into it
OwnTransmitted(p) ==
  OwnParams(p) \o <<<<"nonce", NonceOfCall(p.id)>>, <<"apikey", apiKey>>>>

C30_RequestsIsolated ==
  SchemeA =>
    /\ \A p \in pending :
         /\ p.params = OwnTransmitted(p)
         /\ Get(p.headers, "apisign")
              = Str(HmacSHA512(baseURL \o p.url \o "?" \o QueryOf(OwnTransmitted(p)),
                               ToStr(apiSecret)))
    /\ \A p, q \in pending :
         p.id # q.id => Get(p.headers, "apisign") # Get(q.headers, "apisign")

C30_Witness ==
  /\ SchemeA
  /\ \E p, q \in pending :
       /\ p.id = 1 /\ p.op = "buyLimit"
       /\ q.id = 2 /\ q.op = "balance"
       /\ Keys(OwnParams(p)) \cap Keys(OwnParams(q)) = {}
       /\ p.params = OwnTransmitted(p)
       /\ q.params = OwnTransmitted(q)
       /\ Get(p.headers, "apisign") # Get(q.headers, "apisign")

====
